---- MODULE Spec2Model ----
(***************************************************************************)
(* bin/optimize.py: the role activation resolver (is_role_definition_in_use *)
(* and the loop that builds known_role_names / enabled_role_names), the     *)
(* block-scoped line filter (process_file_contents) and the run that loads  *)
(* the documents, resolves the roles and filters the two text files.        *)
(*                                                                          *)
(* Spec is a whole run, SpecResolve the resolution of the roles alone,      *)
(* SpecFilter one call of process_file_contents alone and                   *)
(* SpecResolveAndFilter the resolution followed by the first call.          *)
(*                                                                          *)
(* A string is a sequence of tokens.  A line of a text file is a sequence   *)
(* of tokens without "\n"; a file's contents is a sequence of tokens in     *)
(* which "\n" separates the lines.  The literal "role-specific:" of the two *)
(* marker patterns is one token; a role name is the sequence of tokens the  *)
(* pattern's group 1 captures.                                              *)
(***************************************************************************)
EXTENDS Integers, Sequences, FiniteSets, TLC

VARIABLES
    vars_yml_files,               \* the documents of the files of --vars-paths
    requirements_yml,             \* the document of the source requirements file
    src_files,                    \* the contents of the source text files
    dst_files,                    \* what has been written to the destinations
    vars_index,                   \* vars files the loop of line 55 has loaded
    used_variable_names,          \* set of variable names (lines 54, 206)
    all_role_definitions,         \* sequence of role definitions (line 208)
    def_index,                    \* definitions the loop of line 217 has processed
    enabled_role_definitions,     \* line 216
    known_role_names,             \* line 228
    enabled_role_names,           \* line 229
    file_name,                    \* process_file_contents: argument
    contents,                     \* process_file_contents: line 118
    lines,                        \* contents.split("\n"), line 125
    line_number,                  \* number of the line processed last (0: none yet)
    role_specific_stack,          \* line 120
    out_lines,                    \* line 121
    sequential_blank_lines_count, \* line 122
    returned,                     \* what process_file_contents returned (line 201)
    raised,                       \* the exception that ended the run, if any
    pc                            \* control location

vars == << vars_yml_files, requirements_yml, src_files, dst_files, vars_index,
           used_variable_names, all_role_definitions, def_index,
           enabled_role_definitions, known_role_names, enabled_role_names,
           file_name, contents, lines, line_number, role_specific_stack,
           out_lines, sequential_blank_lines_count, returned, raised, pc >>

resolver_vars == << used_variable_names, all_role_definitions, def_index,
                    enabled_role_definitions, known_role_names, enabled_role_names >>

file_vars == << vars_yml_files, requirements_yml, src_files, dst_files, vars_index >>

scan_vars == << file_name, contents, lines, line_number, role_specific_stack,
                out_lines, sequential_blank_lines_count, returned >>

-----------------------------------------------------------------------------
(* Bounds of the model. *)

\* lines of a file that may hold markers
MaxLines == 4
\* lines of a file without markers
MaxPlainLines == 5
\* lines of a file whose only markers open and close one role
MaxBlockLines == 6
\* role definitions in the requirements file
MaxDefs == 2
\* files named by --vars-paths
MaxVarsFiles == 2

-----------------------------------------------------------------------------
(* Strings, lines and texts. *)

NL == "\n"

\* the characters the pattern class \s matches
Whitespace == {" ", "\t"}

RECURSIVE Join(_)
\* "\n".join(ls)
Join(ls) ==
    IF ls = << >> THEN << >>
    ELSE IF Len(ls) = 1 THEN ls[1]
    ELSE ls[1] \o << NL >> \o Join(Tail(ls))

RECURSIVE Split(_)
\* text.split("\n"): always at least one line
Split(text) ==
    IF \A i \in 1..Len(text) : text[i] # NL THEN << text >>
    ELSE LET i == CHOOSE k \in 1..Len(text) :
                     /\ text[k] = NL
                     /\ \A j \in 1..(k - 1) : text[j] # NL
         IN  << SubSeq(text, 1, i - 1) >> \o Split(SubSeq(text, i + 1, Len(text)))

RECURSIVE SkipWhitespace(_, _)
\* the position after the longest run of whitespace that starts at i (\s*)
SkipWhitespace(line, i) ==
    IF i <= Len(line) /\ line[i] \in Whitespace
    THEN SkipWhitespace(line, i + 1)
    ELSE i

NoMatch == [matched |-> FALSE, group1 |-> << >>]

\* ([^\s]+)$ from position k: the rest of the line, non-empty, no whitespace
CaptureName(line, k) ==
    LET rest == SubSeq(line, k, Len(line))
    IN  IF rest # << >> /\ \A n \in 1..Len(rest) : rest[n] \notin Whitespace
        THEN [matched |-> TRUE, group1 |-> rest]
        ELSE NoMatch

\* ^\s*#\s*role-specific:\s*([^\s]+)$
regex_role_specific_block_start(line) ==
    LET i == SkipWhitespace(line, 1)
        j == SkipWhitespace(line, i + 1)
    IN  IF /\ i <= Len(line) /\ line[i] = "#"
           /\ j <= Len(line) /\ line[j] = "role-specific:"
        THEN CaptureName(line, SkipWhitespace(line, j + 1))
        ELSE NoMatch

\* ^\s*#\s*/role-specific:\s*([^\s]+)$
regex_role_specific_block_end(line) ==
    LET i == SkipWhitespace(line, 1)
        j == SkipWhitespace(line, i + 1)
    IN  IF /\ i <= Len(line) /\ line[i] = "#"
           /\ j + 1 <= Len(line) /\ line[j] = "/" /\ line[j + 1] = "role-specific:"
        THEN CaptureName(line, SkipWhitespace(line, j + 2))
        ELSE NoMatch

-----------------------------------------------------------------------------
(* Exceptions.  One record shape for all of them; kind "none" is no exception. *)

Exception(kind, role_name, at_line, in_file, known, last_role_name, open) ==
    [kind |-> kind, role_name |-> role_name, line_number |-> at_line,
     file_name |-> in_file, known |-> known, last_role_name |-> last_role_name,
     open |-> open]

NoException == Exception("none", << >>, 0, "", {}, << >>, << >>)

\* the value of a call that has not returned
Nothing == [has |-> FALSE, text |-> << >>]

Returned(text) == [has |-> TRUE, text |-> text]

-----------------------------------------------------------------------------
(* process_file_contents, one line at a time.  A scan state s is the record  *)
(* of the function's locals and of the exception it raised, if any.          *)

\* lines 120-122
InitialScan ==
    [role_specific_stack |-> << >>, out_lines |-> << >>,
     sequential_blank_lines_count |-> 0, raised |-> NoException]

\* Stage 1, lines 128-140
StartBlock(s, role_name, at_line, in_file, known) ==
    IF role_name \notin known
    THEN [s EXCEPT !.raised =
              Exception("unknown_start", role_name, at_line, in_file, known, << >>, << >>)]
    ELSE [s EXCEPT !.role_specific_stack = Append(@, role_name)]

\* EndBlock with the tests of the stack (lines 156-174) before the test of the
\* role name (lines 146-154)
EndBlock_StackChecksFirst(s, role_name, at_line, in_file, known) ==
    IF Len(s.role_specific_stack) = 0
    THEN [s EXCEPT !.raised =
              Exception("no_opening", role_name, at_line, in_file, {}, << >>, << >>)]
    ELSE LET last_role_name == s.role_specific_stack[Len(s.role_specific_stack)]
         IN  IF role_name # last_role_name
             THEN [s EXCEPT !.raised =
                       Exception("mismatch", role_name, at_line, in_file, {},
                                 last_role_name, << >>)]
             ELSE IF role_name \notin known
             THEN [s EXCEPT !.raised =
                       Exception("unknown_end", role_name, at_line, in_file, known,
                                 << >>, << >>)]
             ELSE [s EXCEPT !.role_specific_stack =
                       SubSeq(@, 1, Len(@) - 1)]

\* EndBlock closing the role opened first instead of the one opened last
EndBlock_ClosesOutermost(s, role_name, at_line, in_file, known) ==
    IF role_name \notin known
    THEN [s EXCEPT !.raised =
              Exception("unknown_end", role_name, at_line, in_file, known, << >>, << >>)]
    ELSE IF Len(s.role_specific_stack) = 0
    THEN [s EXCEPT !.raised =
              Exception("no_opening", role_name, at_line, in_file, {}, << >>, << >>)]
    ELSE LET last_role_name == s.role_specific_stack[1]
         IN  IF role_name # last_role_name
             THEN [s EXCEPT !.raised =
                       Exception("mismatch", role_name, at_line, in_file, {},
                                 last_role_name, << >>)]
             ELSE [s EXCEPT !.role_specific_stack = Tail(@)]

\* EndBlock without the check of lines 165-174: any known end marker pops
EndBlock_NoMismatchCheck(s, role_name, at_line, in_file, known) ==
    IF role_name \notin known
    THEN [s EXCEPT !.raised =
              Exception("unknown_end", role_name, at_line, in_file, known, << >>, << >>)]
    ELSE IF Len(s.role_specific_stack) = 0
    THEN [s EXCEPT !.raised =
              Exception("no_opening", role_name, at_line, in_file, {}, << >>, << >>)]
    ELSE [s EXCEPT !.role_specific_stack = SubSeq(@, 1, Len(@) - 1)]

\* Stage 2, lines 144-177
EndBlock(s, role_name, at_line, in_file, known) ==
    IF role_name \notin known
    THEN [s EXCEPT !.raised =
              Exception("unknown_end", role_name, at_line, in_file, known, << >>, << >>)]
    ELSE IF Len(s.role_specific_stack) = 0
    THEN [s EXCEPT !.raised =
              Exception("no_opening", role_name, at_line, in_file, {}, << >>, << >>)]
    ELSE LET last_role_name == s.role_specific_stack[Len(s.role_specific_stack)]
         IN  IF role_name # last_role_name
             THEN [s EXCEPT !.raised =
                       Exception("mismatch", role_name, at_line, in_file, {},
                                 last_role_name, << >>)]
             ELSE [s EXCEPT !.role_specific_stack =
                       SubSeq(@, 1, Len(@) - 1)]

\* AnyRoleDisabled without the not of line 181
AnyRoleDisabled_WithoutNot(stack, enabled) ==
    \E i \in 1..Len(stack) : stack[i] \in enabled

\* AnyRoleDisabled looking at the innermost open role only
AnyRoleDisabled_InnermostOnly(stack, enabled) ==
    Len(stack) > 0 /\ stack[Len(stack)] \notin enabled

\* line 181: any(role_name not in enabled_role_names_set for role_name in stack)
AnyRoleDisabled(stack, enabled) ==
    \E i \in 1..Len(stack) : stack[i] \notin enabled

\* CompactBlankLines without the reset of line 192
CompactBlankLines_NoReset(s, line) ==
    IF line = << >>
    THEN IF s.sequential_blank_lines_count <= 1
         THEN [s EXCEPT !.out_lines = Append(@, line),
                        !.sequential_blank_lines_count = @ + 1]
         ELSE s
    ELSE [s EXCEPT !.out_lines = Append(@, line)]

\* CompactBlankLines with the limit of line 186 off by one
CompactBlankLines_OffByOne(s, line) ==
    IF line = << >>
    THEN IF s.sequential_blank_lines_count <= 2
         THEN [s EXCEPT !.out_lines = Append(@, line),
                        !.sequential_blank_lines_count = @ + 1]
         ELSE s
    ELSE [s EXCEPT !.out_lines = Append(@, line),
                   !.sequential_blank_lines_count = 0]

\* lines 185-192
CompactBlankLines(s, line) ==
    IF line = << >>
    THEN IF s.sequential_blank_lines_count <= 1
         THEN [s EXCEPT !.out_lines = Append(@, line),
                        !.sequential_blank_lines_count = @ + 1]
         ELSE s
    ELSE [s EXCEPT !.out_lines = Append(@, line),
                   !.sequential_blank_lines_count = 0]

\* RegularLineStep where a dropped line ends the run of blank lines
RegularLineStep_DropBreaksRun(s, line, enabled) ==
    IF AnyRoleDisabled(s.role_specific_stack, enabled)
    THEN [s EXCEPT !.sequential_blank_lines_count = 0]
    ELSE CompactBlankLines(s, line)

\* Stage 3, lines 181-192
RegularLineStep(s, line, enabled) ==
    IF AnyRoleDisabled(s.role_specific_stack, enabled)
    THEN s
    ELSE CompactBlankLines(s, line)

\* LoopBody without the continue of line 140: an accepted start marker goes on
\* to stage 3 as a regular line
LoopBody_StartFallsThrough(s, line, at_line, in_file, enabled, known) ==
    LET start_match == regex_role_specific_block_start(line)
        end_match == regex_role_specific_block_end(line)
    IN  IF start_match.matched
        THEN LET opened == StartBlock(s, start_match.group1, at_line, in_file, known)
             IN  IF opened.raised.kind # "none"
                 THEN opened
                 ELSE RegularLineStep(opened, line, enabled)
        ELSE IF end_match.matched
        THEN EndBlock(s, end_match.group1, at_line, in_file, known)
        ELSE RegularLineStep(s, line, enabled)

\* LoopBody pushing the start markers met inside a stripped block without the
\* test of lines 131-137
LoopBody_UncheckedInStrippedBlock(s, line, at_line, in_file, enabled, known) ==
    LET start_match == regex_role_specific_block_start(line)
        end_match == regex_role_specific_block_end(line)
    IN  IF start_match.matched
        THEN IF AnyRoleDisabled(s.role_specific_stack, enabled)
             THEN [s EXCEPT !.role_specific_stack = Append(@, start_match.group1)]
             ELSE StartBlock(s, start_match.group1, at_line, in_file, known)
        ELSE IF end_match.matched
        THEN EndBlock(s, end_match.group1, at_line, in_file, known)
        ELSE RegularLineStep(s, line, enabled)

\* LoopBody validating the markers against the enabled set
LoopBody_ValidatesAgainstEnabled(s, line, at_line, in_file, enabled, known) ==
    LET start_match == regex_role_specific_block_start(line)
        end_match == regex_role_specific_block_end(line)
    IN  IF start_match.matched
        THEN StartBlock(s, start_match.group1, at_line, in_file, enabled)
        ELSE IF end_match.matched
        THEN EndBlock(s, end_match.group1, at_line, in_file, enabled)
        ELSE RegularLineStep(s, line, enabled)

\* the body of the loop of line 125
LoopBody(s, line, at_line, in_file, enabled, known) ==
    LET start_match == regex_role_specific_block_start(line)
        end_match == regex_role_specific_block_end(line)
    IN  IF start_match.matched
        THEN StartBlock(s, start_match.group1, at_line, in_file, known)
        ELSE IF end_match.matched
        THEN EndBlock(s, end_match.group1, at_line, in_file, known)
        ELSE RegularLineStep(s, line, enabled)

\* EndOfLoop ending the text it returns with a newline
EndOfLoop_FinalNewline(s, in_file) ==
    IF Len(s.role_specific_stack) # 0
    THEN [raised |-> Exception("unclosed", << >>, 0, in_file, {}, << >>,
                               s.role_specific_stack),
          returned |-> Nothing]
    ELSE [raised |-> NoException, returned |-> Returned(Join(s.out_lines) \o << NL >>)]

\* EndOfLoop listing the open roles innermost first
EndOfLoop_InnermostFirst(s, in_file) ==
    IF Len(s.role_specific_stack) # 0
    THEN [raised |-> Exception("unclosed", << >>, 0, in_file, {}, << >>,
                               [i \in 1..Len(s.role_specific_stack) |->
                                    s.role_specific_stack[Len(s.role_specific_stack) + 1 - i]]),
          returned |-> Nothing]
    ELSE [raised |-> NoException, returned |-> Returned(Join(s.out_lines))]

\* lines 194-201
EndOfLoop(s, in_file) ==
    IF Len(s.role_specific_stack) # 0
    THEN [raised |-> Exception("unclosed", << >>, 0, in_file, {}, << >>,
                               s.role_specific_stack),
          returned |-> Nothing]
    ELSE [raised |-> NoException, returned |-> Returned(Join(s.out_lines))]

RECURSIVE ScanFrom(_, _, _, _, _, _)
\* the loop of line 125 over ls[at_line..], stopping at the first exception
ScanFrom(s, ls, at_line, in_file, enabled, known) ==
    IF s.raised.kind # "none" THEN [raised |-> s.raised, returned |-> Nothing]
    ELSE IF at_line > Len(ls) THEN EndOfLoop(s, in_file)
    ELSE ScanFrom(LoopBody(s, ls[at_line], at_line, in_file, enabled, known),
                  ls, at_line + 1, in_file, enabled, known)

\* process_file_contents as a function of the file's contents
process_file_contents(in_file, text, enabled, known) ==
    ScanFrom(InitialScan, Split(text), 1, in_file, enabled, known)

-----------------------------------------------------------------------------
(* The paths of the command line (lines 35-41). *)

SrcSetupYml == "src-setup.yml"
SrcGroupVarsYml == "src-group-vars.yml"
DstRequirementsYml == "dst-requirements.yml"
DstSetupYml == "dst-setup.yml"
DstGroupVarsYml == "dst-group-vars.yml"

-----------------------------------------------------------------------------
(* The role activation resolver.  A YAML value is a record of its type and,   *)
(* for a dict, the function from its keys to values, for a list, the         *)
(* sequence of its elements.                                                 *)

Dict(items) == [type |-> "dict", items |-> items, elems |-> << >>]

YamlList(elems) == [type |-> "list", items |-> << >>, elems |-> elems]

\* what yaml.safe_load returns for an empty document
YamlNone == [type |-> "none", items |-> << >>, elems |-> << >>]

\* a non-empty string
Scalar == [type |-> "str", items |-> << >>, elems |-> << >>]

\* a value that is false in a boolean context: None, {} and []
Falsy(value) ==
    \/ value.type = "none"
    \/ value.type = "dict" /\ DOMAIN value.items = {}
    \/ value.type = "list" /\ value.elems = << >>

\* one iteration of the loop of line 55 (lines 56-65)
LoadVarsFile ==
    /\ pc = "load_vars"
    /\ vars_index < Len(vars_yml_files)
    /\ LET loaded == vars_yml_files[vars_index + 1]
           yaml_data == IF Falsy(loaded) THEN Dict(<< >>) ELSE loaded
       IN  IF yaml_data.type # "dict"
           THEN /\ raised' = Exception("vars_not_mapping", << >>, 0, "", {}, << >>, << >>)
                /\ pc' = "raised"
                /\ UNCHANGED << vars_index, used_variable_names >>
           ELSE /\ used_variable_names' = used_variable_names \cup DOMAIN yaml_data.items
                /\ vars_index' = vars_index + 1
                /\ UNCHANGED << raised, pc >>
    /\ UNCHANGED << vars_yml_files, requirements_yml, src_files, dst_files,
                    all_role_definitions, def_index, enabled_role_definitions,
                    known_role_names, enabled_role_names, scan_vars >>

\* lines 208-216
LoadRequirements ==
    /\ pc = "load_vars"
    /\ vars_index = Len(vars_yml_files)
    /\ IF requirements_yml.type = "none"
       THEN /\ raised' = Exception("requirements_empty", << >>, 0, "", {}, << >>, << >>)
            /\ pc' = "raised"
            /\ UNCHANGED all_role_definitions
       ELSE IF requirements_yml.type # "list"
       THEN /\ raised' = Exception("requirements_not_list", << >>, 0, "", {}, << >>, << >>)
            /\ pc' = "raised"
            /\ UNCHANGED all_role_definitions
       ELSE /\ all_role_definitions' = requirements_yml.elems
            /\ pc' = "definitions"
            /\ UNCHANGED raised
    /\ UNCHANGED << file_vars, used_variable_names, def_index,
                    enabled_role_definitions, known_role_names,
                    enabled_role_names, scan_vars >>

\* var_name.startswith(prefix)
StartsWith(var_name, prefix) ==
    /\ Len(prefix) <= Len(var_name)
    /\ SubSeq(var_name, 1, Len(prefix)) = prefix

\* is_role_definition_in_use with "" as the default of the get of line 74
is_role_definition_in_use_DefaultEmpty(role_definition, variable_names) ==
    IF "activation_prefix" \notin DOMAIN role_definition.items
    THEN TRUE
    ELSE IF role_definition.items.activation_prefix = << >>
    THEN TRUE
    ELSE \E var_name \in variable_names :
             StartsWith(var_name, role_definition.items.activation_prefix)

\* lines 73-82
is_role_definition_in_use(role_definition, variable_names) ==
    IF "activation_prefix" \notin DOMAIN role_definition.items
    THEN FALSE
    ELSE IF role_definition.items.activation_prefix = << >>
    THEN TRUE
    ELSE \E var_name \in variable_names :
             StartsWith(var_name, role_definition.items.activation_prefix)

\* AppendIfInUse where a definition not in use withdraws the definitions of
\* the same name that came before it
AppendIfInUse_LastWins(definitions, role_definition, variable_names) ==
    IF is_role_definition_in_use(role_definition, variable_names)
    THEN Append(definitions, role_definition)
    ELSE SelectSeq(definitions,
                   LAMBDA d : d.items.name # role_definition.items.name)

\* lines 224-225
AppendIfInUse(definitions, role_definition, variable_names) ==
    IF is_role_definition_in_use(role_definition, variable_names)
    THEN Append(definitions, role_definition)
    ELSE definitions

\* KnownRoleNames leaving out the roles that are defined more than once
KnownRoleNames_DefinedOnce(definitions) ==
    { definitions[i].items.name :
          i \in { j \in 1..Len(definitions) :
                      \A k \in 1..Len(definitions) :
                          definitions[k].items.name = definitions[j].items.name => k = j } }

\* line 228
KnownRoleNames(definitions) ==
    { definitions[i].items.name : i \in 1..Len(definitions) }

\* line 229
EnabledRoleNames(definitions) ==
    { definitions[i].items.name : i \in 1..Len(definitions) }

RECURSIVE EnabledDefinitions(_, _)
\* the loop of lines 216-225 over definitions that are all dicts with a name
EnabledDefinitions(definitions, variable_names) ==
    IF definitions = << >> THEN << >>
    ELSE AppendIfInUse(
             EnabledDefinitions(SubSeq(definitions, 1, Len(definitions) - 1),
                                variable_names),
             definitions[Len(definitions)], variable_names)

\* one iteration of the loop of line 217
CheckDefinition ==
    /\ pc = "definitions"
    /\ def_index < Len(all_role_definitions)
    /\ LET role_definition == all_role_definitions[def_index + 1]
       IN  IF role_definition.type # "dict"
           THEN /\ raised' = Exception("definition_not_dict", << >>, 0, "", {}, << >>, << >>)
                /\ pc' = "raised"
                /\ UNCHANGED << def_index, enabled_role_definitions >>
           ELSE IF "name" \notin DOMAIN role_definition.items
           THEN /\ raised' = Exception("definition_without_name", << >>, 0, "", {}, << >>, << >>)
                /\ pc' = "raised"
                /\ UNCHANGED << def_index, enabled_role_definitions >>
           ELSE /\ enabled_role_definitions' =
                       AppendIfInUse(enabled_role_definitions, role_definition,
                                     used_variable_names)
                /\ def_index' = def_index + 1
                /\ UNCHANGED << raised, pc >>
    /\ UNCHANGED << file_vars, used_variable_names, all_role_definitions,
                    known_role_names, enabled_role_names, scan_vars >>

\* ComputeRoleNames followed by the write of line 234, were it not a comment
ComputeRoleNames_RefreshesRequirements ==
    /\ pc = "definitions"
    /\ def_index = Len(all_role_definitions)
    /\ known_role_names' = KnownRoleNames(all_role_definitions)
    /\ enabled_role_names' = EnabledRoleNames(enabled_role_definitions)
    /\ dst_files' = [dst_files EXCEPT ![DstRequirementsYml] =
                         [has |-> TRUE, text |-> enabled_role_definitions]]
    /\ pc' = "resolved"
    /\ UNCHANGED << vars_yml_files, requirements_yml, src_files, vars_index,
                    used_variable_names, all_role_definitions,
                    def_index, enabled_role_definitions, raised, scan_vars >>

\* lines 228-229
ComputeRoleNames ==
    /\ pc = "definitions"
    /\ def_index = Len(all_role_definitions)
    /\ known_role_names' = KnownRoleNames(all_role_definitions)
    /\ enabled_role_names' = EnabledRoleNames(enabled_role_definitions)
    /\ pc' = "resolved"
    /\ UNCHANGED << file_vars, used_variable_names, all_role_definitions,
                    def_index, enabled_role_definitions, raised, scan_vars >>

-----------------------------------------------------------------------------
(* process_file_contents as steps of the run. *)

CurrentLine == lines[line_number + 1]

ScanState ==
    [role_specific_stack |-> role_specific_stack, out_lines |-> out_lines,
     sequential_blank_lines_count |-> sequential_blank_lines_count,
     raised |-> raised]

\* one iteration of the loop of line 125 on the next line
ProcessLine ==
    LET s == LoopBody(ScanState, CurrentLine, line_number + 1, file_name,
                      enabled_role_names, known_role_names)
    IN  /\ line_number' = line_number + 1
        /\ role_specific_stack' = s.role_specific_stack
        /\ out_lines' = s.out_lines
        /\ sequential_blank_lines_count' = s.sequential_blank_lines_count
        /\ raised' = s.raised
        /\ pc' = IF s.raised.kind = "none" THEN "scan" ELSE "raised"
        /\ UNCHANGED << file_vars, resolver_vars, file_name, contents, lines,
                        returned >>

\* the next line is a start marker (lines 127-140)
StartMarker ==
    /\ pc = "scan"
    /\ line_number < Len(lines)
    /\ regex_role_specific_block_start(CurrentLine).matched
    /\ ProcessLine

\* the next line is an end marker (lines 143-177)
EndMarker ==
    /\ pc = "scan"
    /\ line_number < Len(lines)
    /\ ~ regex_role_specific_block_start(CurrentLine).matched
    /\ regex_role_specific_block_end(CurrentLine).matched
    /\ ProcessLine

\* the next line is a regular line (lines 179-192)
RegularLine ==
    /\ pc = "scan"
    /\ line_number < Len(lines)
    /\ ~ regex_role_specific_block_start(CurrentLine).matched
    /\ ~ regex_role_specific_block_end(CurrentLine).matched
    /\ ProcessLine

\* the loop is over (lines 194-201)
EndOfInput ==
    /\ pc = "scan"
    /\ line_number = Len(lines)
    /\ LET r == EndOfLoop(ScanState, file_name)
       IN  /\ raised' = r.raised
           /\ returned' = r.returned
           /\ pc' = IF r.raised.kind = "none" THEN "returned" ELSE "raised"
    /\ UNCHANGED << file_vars, resolver_vars, file_name, contents, lines,
                    line_number, role_specific_stack, out_lines,
                    sequential_blank_lines_count >>

-----------------------------------------------------------------------------
(* The calls of process_file_contents and write_to_file, lines 239-243. *)

\* EnterProcessFileContents without lines 120-122: the stack, the output and
\* the counter are what the call before left
EnterProcessFileContents_KeepsLocals(path) ==
    /\ file_name' = path
    /\ contents' = src_files[path]
    /\ lines' = Split(src_files[path])
    /\ line_number' = 0
    /\ returned' = Nothing
    /\ pc' = "scan"
    /\ UNCHANGED << file_vars, resolver_vars, raised, role_specific_stack,
                    out_lines, sequential_blank_lines_count >>

\* process_file_contents entered for the file at path (lines 118-122)
EnterProcessFileContents(path) ==
    /\ file_name' = path
    /\ contents' = src_files[path]
    /\ lines' = Split(src_files[path])
    /\ line_number' = 0
    /\ role_specific_stack' = InitialScan.role_specific_stack
    /\ out_lines' = InitialScan.out_lines
    /\ sequential_blank_lines_count' = InitialScan.sequential_blank_lines_count
    /\ returned' = Nothing
    /\ pc' = "scan"
    /\ UNCHANGED << file_vars, resolver_vars, raised >>

\* write_to_file(returned, path) (lines 101-103)
WriteToFile(path, next_pc) ==
    /\ dst_files' = [dst_files EXCEPT ![path] = returned]
    /\ pc' = next_pc
    /\ UNCHANGED << vars_yml_files, requirements_yml, src_files, vars_index,
                    resolver_vars, scan_vars, raised >>

\* line 239, up to the loop of line 125
FilterSetupYml ==
    /\ pc = "resolved"
    /\ EnterProcessFileContents(SrcSetupYml)

\* WriteSetupYml put off: the text of line 239 is kept and nothing is written
\* before the second file has been filtered
WriteSetupYml_PutOff ==
    /\ pc = "returned"
    /\ file_name = SrcSetupYml
    /\ pc' = "setup_written"
    /\ UNCHANGED << file_vars, resolver_vars, scan_vars, raised >>

\* line 240
WriteSetupYml ==
    /\ pc = "returned"
    /\ file_name = SrcSetupYml
    /\ WriteToFile(DstSetupYml, "setup_written")

\* line 242, up to the loop of line 125
FilterGroupVarsYml ==
    /\ pc = "setup_written"
    /\ EnterProcessFileContents(SrcGroupVarsYml)

\* line 243
WriteGroupVarsYml ==
    /\ pc = "returned"
    /\ file_name = SrcGroupVarsYml
    /\ WriteToFile(DstGroupVarsYml, "exit")

-----------------------------------------------------------------------------
(* The inputs of the model. *)

RoleA == << "A" >>
RoleB == << "B" >>

BlankLine == << >>
TextLine == << "x" >>
\* "# role-specific:A" and "# /role-specific:A"
StartA == << "#", " ", "role-specific:", "A" >>
EndA == << "#", " ", "/", "role-specific:", "A" >>
\* " #role-specific: B" and "#/role-specific:B"
StartB == << " ", "#", "role-specific:", " ", "B" >>
EndB == << "#", "/", "role-specific:", "B" >>
\* "# role-specific:A " is no marker: whitespace follows the name
NearMarker == << "#", " ", "role-specific:", "A", " " >>
\* " " is not the empty line
SpaceLine == << " " >>

MarkerLines == { StartA, EndA, StartB, EndB }
PlainLines == { BlankLine, TextLine, NearMarker, SpaceLine }
LinePool == { BlankLine, TextLine } \cup MarkerLines

SeqsUpTo(S, n) == UNION { [1..k -> S] : k \in 1..n }

BlockLines == { BlankLine, TextLine, StartA, EndA }

\* block A holding block B holding one line
NestedExample == << StartA, StartB, TextLine, EndB, EndA >>

\* files with markers of both roles: up to MaxLines lines of any kind, up to
\* MaxPlainLines plain lines, and the nested example
TextPool ==
    { Join(ls) : ls \in SeqsUpTo(LinePool, MaxLines)
                        \cup SeqsUpTo(PlainLines, MaxPlainLines)
                        \cup { NestedExample } }

\* files with markers of role A only: up to MaxBlockLines lines
BlockTextPool == { Join(ls) : ls \in SeqsUpTo(BlockLines, MaxBlockLines) }

DbPrefix == << "d", "b", "_" >>
CachePrefix == << "c", "a", "c", "h", "e", "_" >>
DbHost == << "d", "b", "_", "h", "o", "s", "t" >>
ApiKey == << "a", "p", "i", "_", "k", "e", "y" >>
Db == << "d", "b" >>
CacheTtl == << "c", "a", "c", "h", "e", "_", "t", "t", "l" >>

VariablePool == { DbHost, ApiKey, Db, CacheTtl }
PrefixPool == { << >>, DbPrefix, CachePrefix }

NamedDefinitions ==
    { Dict([name |-> n]) : n \in { RoleA, RoleB } }
    \cup { Dict([name |-> n, activation_prefix |-> p]) : n \in { RoleA, RoleB }, p \in PrefixPool }

DefinitionPool ==
    NamedDefinitions \cup { Scalar, Dict([activation_prefix |-> << >>]) }

\* requirement files that enable, disable or leave undeclared the role n
SwitchesOf(n) ==
    { << >>,
      << Dict([name |-> n, activation_prefix |-> << >>]) >>,
      << Dict([name |-> n]) >> }

\* requirement files that enable, disable or leave undeclared each of A and B
SwitchLists == { a \o b : a \in SwitchesOf(RoleA), b \in SwitchesOf(RoleB) }

\* a vars file: the mapping with these top-level keys
VarsDict(keys) == Dict([k \in keys |-> "value"])

\* no destination has been written
NothingWritten ==
    [path \in { DstRequirementsYml, DstSetupYml, DstGroupVarsYml } |-> Nothing]

\* the resolver's inputs, before the loop of line 217
InitResolve ==
    /\ used_variable_names \in SUBSET VariablePool
    /\ all_role_definitions \in { << >> } \cup SeqsUpTo(DefinitionPool, MaxDefs)
    /\ vars_yml_files = << VarsDict(used_variable_names) >>
    /\ vars_index = 1
    /\ requirements_yml = YamlList(all_role_definitions)
    /\ src_files = << >>
    /\ dst_files = NothingWritten
    /\ def_index = 0
    /\ enabled_role_definitions = << >>
    /\ known_role_names = {}
    /\ enabled_role_names = {}
    /\ file_name = ""
    /\ contents = << >>
    /\ lines = << >>
    /\ line_number = 0
    /\ role_specific_stack = << >>
    /\ out_lines = << >>
    /\ sequential_blank_lines_count = 0
    /\ returned = Nothing
    /\ raised = NoException
    /\ pc = "definitions"

NextResolve == CheckDefinition \/ ComputeRoleNames

SpecResolve == InitResolve /\ [][NextResolve]_vars

\* process_file_contents entered (lines 118-125) after a resolution
InitFilter ==
    /\ used_variable_names = {}
    /\ \/ /\ all_role_definitions \in SwitchLists
          /\ contents \in TextPool
       \/ /\ all_role_definitions \in SwitchesOf(RoleA)
          /\ contents \in BlockTextPool
    /\ vars_yml_files = << >>
    /\ vars_index = 0
    /\ requirements_yml = YamlList(all_role_definitions)
    /\ src_files = [path \in { SrcSetupYml } |-> contents]
    /\ dst_files = NothingWritten
    /\ def_index = Len(all_role_definitions)
    /\ enabled_role_definitions = EnabledDefinitions(all_role_definitions, {})
    /\ known_role_names = KnownRoleNames(all_role_definitions)
    /\ enabled_role_names = EnabledRoleNames(enabled_role_definitions)
    /\ file_name = SrcSetupYml
    /\ lines = Split(contents)
    /\ line_number = 0
    /\ role_specific_stack = InitialScan.role_specific_stack
    /\ out_lines = InitialScan.out_lines
    /\ sequential_blank_lines_count = InitialScan.sequential_blank_lines_count
    /\ returned = Nothing
    /\ raised = InitialScan.raised
    /\ pc = "scan"

NextFilter == StartMarker \/ EndMarker \/ RegularLine \/ EndOfInput

SpecFilter == InitFilter /\ [][NextFilter]_vars

\* documents of vars files: empty, mappings, an empty list, a list, a string
VarsDocPool ==
    { YamlNone, VarsDict({ DbHost }), VarsDict({ ApiKey, CacheTtl }),
      YamlList(<< >>), YamlList(<< Scalar >>), Scalar }

\* documents of the requirements file: empty, a mapping, lists of definitions
RequirementsPool ==
    { YamlNone, VarsDict({ DbHost }) }
    \cup { YamlList(ds) : ds \in
             { << >>,
               << Dict([name |-> RoleA, activation_prefix |-> DbPrefix]) >>,
               << Dict([name |-> RoleA, activation_prefix |-> DbPrefix]),
                  Dict([name |-> RoleB, activation_prefix |-> << >>]) >>,
               << Dict([name |-> RoleA]),
                  Dict([name |-> RoleB, activation_prefix |-> CachePrefix]) >>,
               << Dict([name |-> RoleA, activation_prefix |-> << >>]),
                  Dict([name |-> RoleA]) >>,
               << Dict([name |-> RoleA, activation_prefix |-> << >>]), Scalar >>,
               << Dict([name |-> RoleB]), Dict([activation_prefix |-> << >>]) >> } }

\* source text files of a run
RunTextPool ==
    { Join(ls) : ls \in
        { << TextLine >>,
          << StartA, TextLine, EndA >>,
          << StartB, BlankLine, EndB, TextLine >>,
          << StartA, TextLine >>,
          << TextLine, EndB >>,
          << TextLine, BlankLine, BlankLine >> } }

\* the state after the arguments are parsed (line 44)
Init ==
    /\ vars_yml_files \in { << >> } \cup SeqsUpTo(VarsDocPool, MaxVarsFiles)
    /\ requirements_yml \in RequirementsPool
    /\ src_files \in [{ SrcSetupYml, SrcGroupVarsYml } -> RunTextPool]
    /\ dst_files = NothingWritten
    /\ vars_index = 0
    /\ used_variable_names = {}
    /\ all_role_definitions = << >>
    /\ def_index = 0
    /\ enabled_role_definitions = << >>
    /\ known_role_names = {}
    /\ enabled_role_names = {}
    /\ file_name = ""
    /\ contents = << >>
    /\ lines = << >>
    /\ line_number = 0
    /\ role_specific_stack = << >>
    /\ out_lines = << >>
    /\ sequential_blank_lines_count = 0
    /\ returned = Nothing
    /\ raised = NoException
    /\ pc = "load_vars"

Next ==
    \/ LoadVarsFile
    \/ LoadRequirements
    \/ CheckDefinition
    \/ ComputeRoleNames
    \/ FilterSetupYml
    \/ StartMarker
    \/ EndMarker
    \/ RegularLine
    \/ EndOfInput
    \/ WriteSetupYml
    \/ FilterGroupVarsYml
    \/ WriteGroupVarsYml

Spec == Init /\ [][Next]_vars

\* the resolver's inputs and one source text file, before the loop of line 217
InitResolveAndFilter ==
    /\ used_variable_names \in SUBSET VariablePool
    /\ all_role_definitions \in { << >> } \cup SeqsUpTo(DefinitionPool, MaxDefs)
    /\ vars_yml_files = << VarsDict(used_variable_names) >>
    /\ vars_index = 1
    /\ requirements_yml = YamlList(all_role_definitions)
    /\ src_files \in [{ SrcSetupYml } -> RunTextPool \cup { Join(NestedExample) }]
    /\ dst_files = NothingWritten
    /\ def_index = 0
    /\ enabled_role_definitions = << >>
    /\ known_role_names = {}
    /\ enabled_role_names = {}
    /\ file_name = ""
    /\ contents = << >>
    /\ lines = << >>
    /\ line_number = 0
    /\ role_specific_stack = << >>
    /\ out_lines = << >>
    /\ sequential_blank_lines_count = 0
    /\ returned = Nothing
    /\ raised = NoException
    /\ pc = "definitions"

\* lines 216-239: the resolution and the first call of process_file_contents
NextResolveAndFilter ==
    \/ CheckDefinition
    \/ ComputeRoleNames
    \/ FilterSetupYml
    \/ StartMarker
    \/ EndMarker
    \/ RegularLine
    \/ EndOfInput

SpecResolveAndFilter == InitResolveAndFilter /\ [][NextResolveAndFilter]_vars

-----------------------------------------------------------------------------
(* What the claims are stated with: the markers of a file read off its lines, *)
(* independently of the scan.                                                 *)

IsStartMarker(line) == regex_role_specific_block_start(line).matched

IsEndMarker(line) ==
    /\ ~ regex_role_specific_block_start(line).matched
    /\ regex_role_specific_block_end(line).matched

IsMarker(line) == IsStartMarker(line) \/ IsEndMarker(line)

MarkerName(line) ==
    IF IsStartMarker(line)
    THEN regex_role_specific_block_start(line).group1
    ELSE regex_role_specific_block_end(line).group1

RECURSIVE OpenAfter(_, _)
\* the roles open after the first n lines of ls, the one opened first first:
\* a start marker opens its role, an end marker closes the role opened last
OpenAfter(ls, n) ==
    IF n = 0 THEN << >>
    ELSE LET before == OpenAfter(ls, n - 1)
         IN  IF IsStartMarker(ls[n]) THEN before \o << MarkerName(ls[n]) >>
             ELSE IF IsEndMarker(ls[n]) /\ before # << >>
             THEN [i \in 1..(Len(before) - 1) |-> before[i]]
             ELSE before

\* line n of ls is a marker that names an undeclared role, or an end marker
\* that does not close the role opened last
BadMarker(ls, n, known) ==
    /\ IsMarker(ls[n])
    /\ \/ MarkerName(ls[n]) \notin known
       \/ /\ IsEndMarker(ls[n])
          /\ LET before == OpenAfter(ls, n - 1)
             IN  before = << >> \/ before[Len(before)] # MarkerName(ls[n])

\* the first bad marker of ls, 0 if there is none
FirstBadMarker(ls, known) ==
    IF \E n \in 1..Len(ls) : BadMarker(ls, n, known)
    THEN CHOOSE n \in 1..Len(ls) :
             /\ BadMarker(ls, n, known)
             /\ \A m \in 1..(n - 1) : ~ BadMarker(ls, m, known)
    ELSE 0

AllEnabled(stack) == \A i \in 1..Len(stack) : stack[i] \in enabled_role_names

\* the next step of the scan processes a regular line
AtRegularLine ==
    /\ pc = "scan"
    /\ line_number < Len(lines)
    /\ ~ IsMarker(CurrentLine)

\* the next step of the scan processes an end marker
AtEndMarker ==
    /\ pc = "scan"
    /\ line_number < Len(lines)
    /\ IsEndMarker(CurrentLine)

\* the next step of the scan processes a start marker
AtStartMarker ==
    /\ pc = "scan"
    /\ line_number < Len(lines)
    /\ IsStartMarker(CurrentLine)

-----------------------------------------------------------------------------
\* C1: a regular line is retained iff every role on the open-block stack is
\* enabled (always with an empty stack): a retained line is appended to the
\* output unless it is a blank line after two retained blank lines, and a line
\* that is not retained leaves the output and the blank-run counter alone.
C1_RetainedIffAllOpenRolesEnabled ==
    [][ (AtRegularLine /\ line_number' = line_number + 1) =>
          /\ pc' = "scan"
          /\ role_specific_stack' = role_specific_stack
          /\ IF AllEnabled(role_specific_stack)
             THEN IF CurrentLine = BlankLine /\ sequential_blank_lines_count >= 2
                  THEN out_lines' = out_lines
                  ELSE out_lines' = out_lines \o << CurrentLine >>
             ELSE /\ out_lines' = out_lines
                  /\ sequential_blank_lines_count' = sequential_blank_lines_count
      ]_vars

\* C1: a line inside B inside A was dropped with B enabled and A disabled
C1_Witness ==
    /\ pc = "scan"
    /\ role_specific_stack = << RoleA, RoleB >>
    /\ RoleB \in enabled_role_names
    /\ RoleA \notin enabled_role_names
    /\ line_number = 3
    /\ lines[3] = TextLine
    /\ out_lines = << >>

NoLongBlankRun(ls) ==
    \A i \in 1..(Len(ls) - 2) :
        ~ (ls[i] = BlankLine /\ ls[i + 1] = BlankLine /\ ls[i + 2] = BlankLine)

NoMarkerLine(ls) == \A i \in 1..Len(ls) : ~ IsMarker(ls[i])

\* C2: at every point of the scan the accumulated output holds no run of more
\* than 2 blank lines and no marker line, and so does the text returned.
C2_OutputInvariant ==
    /\ NoLongBlankRun(out_lines)
    /\ NoMarkerLine(out_lines)
    /\ returned.has =>
         /\ NoLongBlankRun(Split(returned.text))
         /\ NoMarkerLine(Split(returned.text))

\* C2: a third retained blank line was dropped after a marker was passed
C2_Witness ==
    /\ pc = "scan"
    /\ line_number = 4
    /\ lines[1] = BlankLine /\ lines[2] = StartA
    /\ lines[3] = BlankLine /\ lines[4] = BlankLine
    /\ RoleA \in enabled_role_names
    /\ out_lines = << BlankLine, BlankLine >>

\* C3: the scan starts with an empty stack; while it runs no processed line is
\* a bad marker and the stack is the roles open so far; it returns a text iff
\* the file has no bad marker and no role is open at its end; the first bad
\* marker raises at its line, no later line is processed, nothing is returned.
C3_ScanAcceptsBalancedFiles ==
    LET bad == FirstBadMarker(lines, known_role_names)
    IN  /\ line_number = 0 => role_specific_stack = << >>
        /\ pc = "scan" =>
             /\ bad = 0 \/ bad > line_number
             /\ role_specific_stack = OpenAfter(lines, line_number)
             /\ ~ returned.has
        /\ pc = "returned" =>
             /\ bad = 0
             /\ OpenAfter(lines, Len(lines)) = << >>
             /\ line_number = Len(lines)
             /\ returned.has
             /\ raised.kind = "none"
        /\ pc = "raised" =>
             /\ ~ returned.has
             /\ IF bad = 0
                THEN /\ OpenAfter(lines, Len(lines)) # << >>
                     /\ line_number = Len(lines)
                     /\ raised.kind = "unclosed"
                ELSE /\ line_number = bad
                     /\ raised.line_number = bad
                     /\ raised.kind \in { "unknown_start", "unknown_end",
                                          "no_opening", "mismatch" }

\* C3: an end marker that closes the wrong role stopped the scan before the
\* last line of the file
C3_Witness ==
    /\ pc = "raised"
    /\ raised.kind = "mismatch"
    /\ line_number = 3
    /\ Len(lines) = 4
    /\ role_specific_stack = << RoleA, RoleB >>

StackTop == role_specific_stack[Len(role_specific_stack)]

\* the next step processes an end marker that closes nothing: no role is
\* open, or the role opened last is another one
AtUnbalancedEndMarker ==
    /\ AtEndMarker
    /\ role_specific_stack = << >> \/ StackTop # MarkerName(CurrentLine)

\* C4 as the claim states it: every end marker met with an empty stack or
\* naming another role than the top of the stack raises the unbalanced-block
\* error and pops nothing.
C4_AsClaimed ==
    [][ (AtUnbalancedEndMarker /\ line_number' = line_number + 1) =>
          /\ pc' = "raised"
          /\ raised'.kind \in { "no_opening", "mismatch" }
          /\ role_specific_stack' = role_specific_stack
      ]_vars

\* C4, amended: an end marker that names a KNOWN role and is met with an empty
\* stack or names another role than the top of the stack raises the
\* unbalanced-block error, which names the marker's role and (for a non-empty
\* stack) the role opened last, and the stack is not popped.
C4_UnbalancedEndMarkerOfKnownRole ==
    [][ (/\ AtUnbalancedEndMarker
         /\ MarkerName(CurrentLine) \in known_role_names
         /\ line_number' = line_number + 1) =>
          /\ pc' = "raised"
          /\ raised'.kind =
                 IF role_specific_stack = << >> THEN "no_opening" ELSE "mismatch"
          /\ raised'.role_name = MarkerName(CurrentLine)
          /\ raised'.line_number = line_number + 1
          /\ role_specific_stack # << >> => raised'.last_role_name = StackTop
          /\ role_specific_stack' = role_specific_stack
      ]_vars

\* C4: the start marker of A followed at once by the end marker of B, both known
C4_Witness ==
    /\ pc = "raised"
    /\ line_number = 2
    /\ lines[1] = StartA /\ lines[2] = EndB
    /\ { RoleA, RoleB } \subseteq known_role_names
    /\ raised.kind = "mismatch"
    /\ raised.role_name = RoleB
    /\ raised.last_role_name = RoleA
    /\ role_specific_stack = << RoleA >>

\* C5: a marker naming a role that is not known raises the unknown-role error
\* at its line, whatever the enabled set and the stack; a start marker of a
\* known role is pushed without error and an end marker of the known role
\* opened last is popped without error, enabled or not.
C5_UnknownRoleMarker ==
    [][ (/\ pc = "scan"
         /\ line_number < Len(lines)
         /\ IsMarker(CurrentLine)
         /\ line_number' = line_number + 1) =>
          IF MarkerName(CurrentLine) \notin known_role_names
          THEN /\ pc' = "raised"
               /\ raised'.kind =
                      IF IsStartMarker(CurrentLine) THEN "unknown_start" ELSE "unknown_end"
               /\ raised'.role_name = MarkerName(CurrentLine)
               /\ raised'.line_number = line_number + 1
          ELSE /\ raised'.kind \notin { "unknown_start", "unknown_end" }
               /\ IsStartMarker(CurrentLine) =>
                    /\ pc' = "scan"
                    /\ role_specific_stack' =
                           role_specific_stack \o << MarkerName(CurrentLine) >>
               /\ (/\ IsEndMarker(CurrentLine)
                   /\ role_specific_stack # << >>
                   /\ StackTop = MarkerName(CurrentLine)) =>
                    /\ pc' = "scan"
                    /\ Len(role_specific_stack') = Len(role_specific_stack) - 1
      ]_vars

\* C5: a start marker of an undeclared role inside the block of a disabled role
C5_Witness ==
    /\ pc = "raised"
    /\ raised.kind = "unknown_start"
    /\ raised.role_name = RoleB
    /\ raised.line_number = 3
    /\ RoleB \notin known_role_names
    /\ role_specific_stack = << RoleA >>
    /\ RoleA \notin enabled_role_names
    /\ lines[2] = TextLine
    /\ out_lines = << >>

\* C6: the end of the input reached with roles still open raises the
\* unclosed-block error, which lists exactly the open roles, the one opened
\* first first, and no text is returned.
C6_UnclosedBlocks ==
    [][ (/\ pc = "scan"
         /\ line_number = Len(lines)
         /\ role_specific_stack # << >>
         /\ pc' # pc) =>
          /\ pc' = "raised"
          /\ raised'.kind = "unclosed"
          /\ raised'.open = OpenAfter(lines, Len(lines))
          /\ raised'.open # << >>
          /\ returned' = Nothing
      ]_vars

\* C6: a file ended with A and, inside it, B still open
C6_Witness ==
    /\ pc = "raised"
    /\ raised.kind = "unclosed"
    /\ raised.open = << RoleA, RoleB >>
    /\ line_number = Len(lines)
    /\ ~ returned.has

-----------------------------------------------------------------------------
\* the activation rule: a prefix is present, and it is empty or some variable
\* name begins with it
HasPrefix(role_definition) == "activation_prefix" \in DOMAIN role_definition.items

SomeNameBeginsWith(variable_names, prefix) ==
    \E v \in variable_names :
        /\ Len(v) >= Len(prefix)
        /\ \A k \in 1..Len(prefix) : v[k] = prefix[k]

IsListedEnabled(role_definition) ==
    \E j \in 1..Len(enabled_role_definitions) :
        enabled_role_definitions[j] = role_definition

\* C7: of the definitions the loop has processed, one without
\* activation_prefix is not enabled, one with the empty prefix is enabled, and
\* one with a non-empty prefix is enabled iff some variable name begins with it.
C7_EnablementPerDefinition ==
    \A i \in 1..def_index :
        LET d == all_role_definitions[i]
        IN  /\ ~ HasPrefix(d) => ~ IsListedEnabled(d)
            /\ (HasPrefix(d) /\ d.items.activation_prefix = << >>) =>
                   IsListedEnabled(d)
            /\ (HasPrefix(d) /\ d.items.activation_prefix # << >>) =>
                   (IsListedEnabled(d) <=>
                        SomeNameBeginsWith(used_variable_names, d.items.activation_prefix))

\* C7: with the names db_host and api_key, prefix db_ is enabled and prefix
\* cache_ is not
C7_Witness ==
    /\ pc = "resolved"
    /\ used_variable_names = { DbHost, ApiKey }
    /\ all_role_definitions =
           << Dict([name |-> RoleA, activation_prefix |-> DbPrefix]),
              Dict([name |-> RoleB, activation_prefix |-> CachePrefix]) >>
    /\ enabled_role_definitions =
           << Dict([name |-> RoleA, activation_prefix |-> DbPrefix]) >>

InUseByRule(role_definition) ==
    /\ HasPrefix(role_definition)
    /\ \/ role_definition.items.activation_prefix = << >>
       \/ SomeNameBeginsWith(used_variable_names, role_definition.items.activation_prefix)

\* C8: after resolution the known set is the set of the names of all
\* definitions and the enabled set is the set of the names that at least one
\* definition in use bears, whatever other definitions of that name say.
C8_KnownAndEnabledSets ==
    pc = "resolved" =>
        /\ \A n \in known_role_names \cup { RoleA, RoleB } :
               n \in known_role_names <=>
                   \E i \in 1..Len(all_role_definitions) :
                       all_role_definitions[i].items.name = n
        /\ \A n \in enabled_role_names \cup { RoleA, RoleB } :
               n \in enabled_role_names <=>
                   \E i \in 1..Len(all_role_definitions) :
                       /\ all_role_definitions[i].items.name = n
                       /\ InUseByRule(all_role_definitions[i])

\* C8: A is defined twice, in use first and then without activation_prefix
C8_Witness ==
    /\ pc = "resolved"
    /\ all_role_definitions =
           << Dict([name |-> RoleA, activation_prefix |-> << >>]),
              Dict([name |-> RoleA]) >>
    /\ known_role_names = { RoleA }
    /\ enabled_role_names = { RoleA }

RECURSIVE CompactedPrefix(_, _)
\* the first n lines of ls without the blank lines that follow two blank lines
CompactedPrefix(ls, n) ==
    IF n = 0 THEN << >>
    ELSE IF /\ n >= 3
            /\ ls[n] = BlankLine /\ ls[n - 1] = BlankLine /\ ls[n - 2] = BlankLine
         THEN CompactedPrefix(ls, n - 1)
         ELSE CompactedPrefix(ls, n - 1) \o << ls[n] >>

\* C9: on a file without marker lines the scan does not fail, and the output
\* is the input with every run of 3 or more blank lines cut to 2, the other
\* lines unchanged and in order.
C9_MarkerFreeFile ==
    NoMarkerLine(lines) =>
        /\ pc # "raised"
        /\ out_lines = CompactedPrefix(lines, line_number)
        /\ pc = "returned" =>
             /\ line_number = Len(lines)
             /\ returned.has
             /\ Split(returned.text) = CompactedPrefix(lines, Len(lines))

\* C9: a, three blank lines, b gave a, two blank lines, b
C9_Witness ==
    /\ pc = "returned"
    /\ lines = << TextLine, BlankLine, BlankLine, BlankLine, NearMarker >>
    /\ Split(returned.text) = << TextLine, BlankLine, BlankLine, NearMarker >>

\* C10: the text a scan returned, filtered again with the same sets, is
\* returned unchanged.
C10_Idempotent ==
    pc = "returned" =>
        process_file_contents(file_name, returned.text,
                              enabled_role_names, known_role_names)
            = [raised |-> NoException, returned |-> Returned(returned.text)]

\* C10: two blank lines, a stripped block and a blank line gave two blank lines
C10_Witness ==
    /\ pc = "returned"
    /\ lines = << BlankLine, BlankLine, StartA, TextLine, EndA, BlankLine >>
    /\ RoleA \notin enabled_role_names
    /\ returned.text = Join(<< BlankLine, BlankLine >>)
    /\ returned.text # contents

-----------------------------------------------------------------------------
RECURSIVE RetainedLines(_, _, _)
\* the regular lines among the first n lines of ls that pass line 181: every
\* role open at the line is enabled
RetainedLines(ls, n, enabled) ==
    IF n = 0 THEN << >>
    ELSE LET before == RetainedLines(ls, n - 1, enabled)
             open == OpenAfter(ls, n - 1)
         IN  IF /\ ~ IsMarker(ls[n])
                /\ \A i \in 1..Len(open) : open[i] \in enabled
             THEN before \o << ls[n] >>
             ELSE before

RECURSIVE BlankRunAtEnd(_)
\* the number of blank lines that end ls
BlankRunAtEnd(ls) ==
    IF ls = << >> \/ ls[Len(ls)] # BlankLine THEN 0
    ELSE 1 + BlankRunAtEnd(SubSeq(ls, 1, Len(ls) - 1))

\* the counter counts the blank lines that end the retained lines, stopping at 2
BlankRunOfRetainedLines ==
    pc = "scan" =>
        LET run == BlankRunAtEnd(RetainedLines(lines, line_number, enabled_role_names))
        IN  sequential_blank_lines_count = IF run > 2 THEN 2 ELSE run

\* C11: blank-run accounting sees the retained lines only.  A start marker, an
\* end marker and a line dropped for a disabled open role leave the counter
\* and the output unchanged; a retained non-blank line sets the counter to 0;
\* a retained blank line is emitted and counted while the counter is below 2
\* and is dropped at 2.  So the counter is the run of blank lines that ends the
\* retained lines, stripped blocks and markers left out, capped at 2.
C11_BlankRunSeesRetainedLinesOnly ==
    /\ [] BlankRunOfRetainedLines
    /\ [][ (/\ pc = "scan"
            /\ line_number < Len(lines)
            /\ line_number' = line_number + 1
            /\ pc' = "scan") =>
             IF IsMarker(CurrentLine) \/ ~ AllEnabled(role_specific_stack)
             THEN /\ sequential_blank_lines_count' = sequential_blank_lines_count
                  /\ out_lines' = out_lines
             ELSE IF CurrentLine # BlankLine
             THEN /\ sequential_blank_lines_count' = 0
                  /\ out_lines' = out_lines \o << CurrentLine >>
             ELSE IF sequential_blank_lines_count < 2
             THEN /\ sequential_blank_lines_count' = sequential_blank_lines_count + 1
                  /\ out_lines' = out_lines \o << BlankLine >>
             ELSE /\ sequential_blank_lines_count' = sequential_blank_lines_count
                  /\ out_lines' = out_lines
         ]_vars

\* C11: a blank line, a stripped block and two blank lines: the run went on
\* across the block and its third blank line was not emitted
C11_Witness ==
    /\ pc = "scan"
    /\ lines = << BlankLine, StartA, TextLine, EndA, BlankLine, BlankLine >>
    /\ RoleA \notin enabled_role_names
    /\ line_number = 6
    /\ sequential_blank_lines_count = 2
    /\ out_lines = << BlankLine, BlankLine >>


-----------------------------------------------------------------------------
\* the scan of the file at path has failed
ScanFailed(path) ==
    /\ pc = "raised"
    /\ file_name = path
    /\ raised.kind \in { "unknown_start", "unknown_end", "no_opening",
                         "mismatch", "unclosed" }

\* what a call of process_file_contents on the source at path gives
Filtered(path) ==
    process_file_contents(path, src_files[path], enabled_role_names, known_role_names)

\* the destination at dst holds the text the scan of the whole source at src
\* returned
WrittenFrom(dst, src) ==
    /\ dst_files[dst].has
    /\ Filtered(src).raised.kind = "none"
    /\ dst_files[dst] = Filtered(src).returned

\* which destinations are written at each point of the run
WriteOrder ==
    \* a destination is written only after the scan of its source succeeded
    /\ dst_files[DstSetupYml].has =>
         /\ WrittenFrom(DstSetupYml, SrcSetupYml)
         /\ pc \in { "setup_written", "scan", "returned", "raised", "exit" }
    /\ dst_files[DstGroupVarsYml].has =>
         /\ WrittenFrom(DstGroupVarsYml, SrcGroupVarsYml)
         /\ pc = "exit"
    \* the setup file comes first: the second file is scanned only after the
    \* first destination was written
    /\ file_name = SrcGroupVarsYml => dst_files[DstSetupYml].has
    /\ pc = "exit" => dst_files[DstSetupYml].has /\ dst_files[DstGroupVarsYml].has
    \* the first scan failed: nothing is written, the second is not scanned
    /\ ScanFailed(SrcSetupYml) => dst_files = NothingWritten
    \* the second scan failed: the first destination stays written, the second
    \* is not written
    /\ ScanFailed(SrcGroupVarsYml) =>
         /\ WrittenFrom(DstSetupYml, SrcSetupYml)
         /\ ~ dst_files[DstGroupVarsYml].has

\* C12: the run is fail-fast without rollback, setup file first and then the
\* group-vars file.  A destination is written only after the scan of its whole
\* source succeeded; if the first scan fails nothing is written and the second
\* file is never scanned; if the second scan fails the first destination stays
\* written and the second is not written.  Nothing follows a failure and no
\* written destination is ever changed.
C12_FailFastWithoutRollback ==
    /\ [] WriteOrder
    /\ [][ /\ pc = "raised" => FALSE
           /\ \A dst \in DOMAIN dst_files :
                  dst_files[dst].has => dst_files'[dst] = dst_files[dst]
         ]_vars

\* C12: the first file was filtered and written, the second file lacks an end
\* marker
C12_Witness ==
    /\ ScanFailed(SrcGroupVarsYml)
    /\ raised.kind = "unclosed"
    /\ dst_files[DstSetupYml] = Returned(TextLine)
    /\ src_files[SrcSetupYml] = Join(<< StartA, TextLine, EndA >>)
    /\ ~ dst_files[DstGroupVarsYml].has


-----------------------------------------------------------------------------
\* the errors of lines 60-63, 209-214 and 218-222
ValidationErrors ==
    { "vars_not_mapping", "requirements_empty", "requirements_not_list",
      "definition_not_dict", "definition_without_name" }

\* a document whose top level is a mapping
IsMapping(document) == document.type = "dict"

\* an empty document
IsEmptySource(document) == document.type = "none"

\* a role definition that is a record with a name
IsNamedRecord(definition) ==
    definition.type = "dict" /\ "name" \in DOMAIN definition.items

\* C13 as the claim states it: the run fails with a validation error if the
\* requirements document is not a sequence, at an element that is not a
\* record and at a record without a name; a variable source is accepted only
\* if its top level is a mapping or it is empty, the empty one counting as the
\* empty mapping; a validation error ends the run with no file filtered and
\* no destination written.
C13_AsClaimed ==
    \* variable sources: the ones loaded so far, and the one that failed
    /\ \A i \in 1..vars_index :
           IsMapping(vars_yml_files[i]) \/ IsEmptySource(vars_yml_files[i])
    /\ used_variable_names =
           UNION { DOMAIN vars_yml_files[i].items :
                       i \in { j \in 1..vars_index : IsMapping(vars_yml_files[j]) } }
    /\ raised.kind = "vars_not_mapping" =>
           LET failed == vars_yml_files[vars_index + 1]
           IN  ~ IsMapping(failed) /\ ~ IsEmptySource(failed)
    \* the role-definition collection
    /\ raised.kind \in { "requirements_empty", "requirements_not_list" } =>
           requirements_yml.type # "list"
    /\ pc \notin { "load_vars", "raised" } => requirements_yml.type = "list"
    \* its elements: the ones processed so far, and the one that failed
    /\ \A i \in 1..def_index : IsNamedRecord(all_role_definitions[i])
    /\ raised.kind \in { "definition_not_dict", "definition_without_name" } =>
           ~ IsNamedRecord(all_role_definitions[def_index + 1])
    /\ pc \notin { "load_vars", "definitions", "raised" } =>
           \A i \in 1..Len(all_role_definitions) :
               IsNamedRecord(all_role_definitions[i])
    \* a validation error comes before any file is filtered or written
    /\ raised.kind \in ValidationErrors =>
           /\ pc = "raised"
           /\ file_name = ""
           /\ ~ returned.has
           /\ dst_files = NothingWritten
    /\ (file_name # "" \/ dst_files # NothingWritten) =>
           raised.kind \notin ValidationErrors

\* C13: a vars file whose document is the empty list was loaded as a mapping
\* without names and the run went on to write both destinations
C13_Witness ==
    /\ pc = "exit"
    /\ vars_yml_files = << YamlList(<< >>) >>
    /\ used_variable_names = {}
    /\ dst_files[DstSetupYml].has
    /\ dst_files[DstGroupVarsYml].has

-----------------------------------------------------------------------------
\* how the current call of process_file_contents ended
CallResult == [raised |-> raised, returned |-> returned]

\* the sets are the ones of lines 228-229, and the call under way or over is
\* worth a call on its file alone from the state of lines 120-122
SetsAndCallsIndependent ==
    /\ pc \notin { "load_vars", "definitions", "raised" } =>
         /\ known_role_names = KnownRoleNames(all_role_definitions)
         /\ enabled_role_names =
                EnabledRoleNames(EnabledDefinitions(all_role_definitions,
                                                    used_variable_names))
    /\ pc = "scan" =>
         ScanFrom(ScanState, lines, line_number + 1, file_name,
                  enabled_role_names, known_role_names) = Filtered(file_name)
    /\ (pc \in { "returned", "setup_written", "exit" }
            \/ ScanFailed(SrcSetupYml) \/ ScanFailed(SrcGroupVarsYml)) =>
         CallResult = Filtered(file_name)

\* C14: the enabled and known sets are computed once, before the first file
\* is filtered, and no step of a filter invocation changes them; every
\* invocation starts from an empty stack, an empty output and a zero counter;
\* so what filtering a file gives, text or error, is what filtering that file
\* alone gives, whether or not another file was filtered before it.
C14_SetsFixedAndCallsIndependent ==
    /\ [] SetsAndCallsIndependent
    /\ [][ /\ pc # "definitions" =>
                UNCHANGED << known_role_names, enabled_role_names >>
           /\ (pc # "scan" /\ pc' = "scan") =>
                /\ role_specific_stack' = << >>
                /\ out_lines' = << >>
                /\ sequential_blank_lines_count' = 0
                /\ line_number' = 0
         ]_vars

\* C14: the first file ended in two retained blank lines and the second file,
\* the same text, was filtered to the same text
C14_Witness ==
    /\ pc = "exit"
    /\ src_files[SrcSetupYml] = Join(<< TextLine, BlankLine, BlankLine >>)
    /\ src_files[SrcGroupVarsYml] = src_files[SrcSetupYml]
    /\ dst_files[DstSetupYml] = Returned(src_files[SrcSetupYml])
    /\ dst_files[DstGroupVarsYml] = dst_files[DstSetupYml]
    /\ sequential_blank_lines_count = 2


-----------------------------------------------------------------------------
\* C15: in no run, failed or not, is the destination requirements file
\* written; a step of the run writes at most one file, which is one of the two
\* destination text files, and no source is ever written.
C15_RequirementsNeverWritten ==
    /\ [] (dst_files[DstRequirementsYml] = Nothing)
    /\ [][ /\ UNCHANGED << vars_yml_files, requirements_yml, src_files >>
           /\ \A dst \in DOMAIN dst_files :
                  dst_files'[dst] # dst_files[dst] =>
                      dst \in { DstSetupYml, DstGroupVarsYml }
         ]_vars

\* C15: a run with a role in use ended with both text files written and the
\* destination requirements file not written
C15_Witness ==
    /\ pc = "exit"
    /\ enabled_role_definitions # << >>
    /\ dst_files[DstSetupYml].has
    /\ dst_files[DstGroupVarsYml].has
    /\ ~ dst_files[DstRequirementsYml].has


-----------------------------------------------------------------------------
\* C16: the tests of an end marker come in a fixed order: the role name
\* against the known set, then the stack against empty, then the role name
\* against the top of the stack.  An end marker of an undeclared role raises
\* the unknown-role error whether the stack is empty, has another role on top
\* or not; an end marker of a known role met with an empty stack raises the
\* no-opening-statement error; only then a top of the stack that is another
\* role raises the mismatch error; the first test that fails is the only one
\* reported and the stack is left as it was.
C16_EndMarkerChecksInOrder ==
    [][ (AtEndMarker /\ line_number' = line_number + 1) =>
          LET role_name == MarkerName(CurrentLine)
              kind == IF role_name \notin known_role_names THEN "unknown_end"
                      ELSE IF role_specific_stack = << >> THEN "no_opening"
                      ELSE IF StackTop # role_name THEN "mismatch"
                      ELSE "none"
          IN  /\ raised'.kind = kind
              /\ kind # "none" =>
                   /\ pc' = "raised"
                   /\ raised'.role_name = role_name
                   /\ raised'.line_number = line_number + 1
                   /\ role_specific_stack' = role_specific_stack
              /\ kind = "none" =>
                   /\ pc' = "scan"
                   /\ role_specific_stack' \o << role_name >> = role_specific_stack
      ]_vars

\* C16: the first line of a file is the end marker of an undeclared role: the
\* stack is empty and the error is the unknown-role error
C16_Witness ==
    /\ pc = "raised"
    /\ line_number = 1
    /\ lines[1] = EndB
    /\ RoleB \notin known_role_names
    /\ role_specific_stack = << >>
    /\ raised.kind = "unknown_end"
    /\ raised.role_name = RoleB


-----------------------------------------------------------------------------
\* the lines of ls that are not markers, in order
NonMarkerLines(ls) == SelectSeq(ls, LAMBDA line : ~ IsMarker(line))

RECURSIVE IsSubsequence(_, _)
\* a is b with some of its elements left out: elements are neither changed,
\* nor reordered, nor repeated, nor added
IsSubsequence(a, b) ==
    IF a = << >> THEN TRUE
    ELSE IF b = << >> THEN FALSE
    ELSE IF Head(a) = Head(b) THEN IsSubsequence(Tail(a), Tail(b))
    ELSE IsSubsequence(a, Tail(b))

\* the number of newlines of text
Newlines(text) == Cardinality({ i \in 1..Len(text) : text[i] = NL })

\* C17: the output lines are at every point a subsequence of the non-marker
\* lines read so far: each is an input line as it was, in the input's order,
\* none repeated or invented.  On success the text returned is these lines
\* with one newline between two of them and nothing after the last: splitting
\* it at the newlines gives the output lines back (the empty text for no line).
C17_OutputIsSubsequenceOfInput ==
    /\ IsSubsequence(out_lines, NonMarkerLines(SubSeq(lines, 1, line_number)))
    /\ pc = "returned" =>
         /\ returned.has
         /\ IsSubsequence(out_lines, NonMarkerLines(Split(contents)))
         /\ IF out_lines = << >>
            THEN returned.text = << >>
            ELSE /\ Split(returned.text) = out_lines
                 /\ Newlines(returned.text) = Len(out_lines) - 1
         /\ Len(returned.text) <= Len(contents)

\* C17: of the lines x, blank, blank, blank of an enabled block, the two
\* markers and the third blank line are left out and the rest is returned
C17_Witness ==
    /\ pc = "returned"
    /\ lines = << StartA, TextLine, BlankLine, BlankLine, BlankLine, EndA >>
    /\ RoleA \in enabled_role_names
    /\ out_lines = << TextLine, BlankLine, BlankLine >>
    /\ returned.text = << "x", NL, NL >>


-----------------------------------------------------------------------------
\* the sets that can be given as the enabled set
EnabledSets == SUBSET { RoleA, RoleB }

\* C18: whether the scan of a text succeeds, and the error it fails with
\* (kind, line number, role names), depend on the text and the known set and
\* not on the enabled set.  When a scan has ended, the scan of the same text
\* against the same known set with any other enabled set ends the same way: in
\* a text if this one did, and otherwise in the same error of the same line
\* and roles, markers inside stripped blocks being pushed, popped and
\* validated like the others.
C18_OutcomeIndependentOfEnabledSet ==
    pc \in { "returned", "raised" } =>
        \A enabled \in EnabledSets :
            LET other == process_file_contents(file_name, contents, enabled,
                                               known_role_names)
            IN  /\ other.raised = raised
                /\ other.returned.has = returned.has

\* C18: the end marker of an undeclared role inside the block of a known role
\* that is not enabled, after a line that was dropped
C18_Witness ==
    /\ pc = "raised"
    /\ raised.kind = "unknown_end"
    /\ raised.role_name = RoleB
    /\ raised.line_number = 3
    /\ lines[1] = StartA /\ lines[2] = TextLine /\ lines[3] = EndB
    /\ RoleA \in known_role_names \ enabled_role_names
    /\ out_lines = << >>


-----------------------------------------------------------------------------
\* C19: after resolution the enabled set is a subset of the known set,
\* whatever the list of definitions (names defined twice included) and the
\* variable names; while the definitions are processed the names of the
\* definitions in use are names of definitions; so every role name on the
\* open-block stack is known, and a marker that names an enabled role never
\* raises the unknown-role error.
C19_EnabledSubsetOfKnown ==
    /\ [] /\ enabled_role_names \subseteq known_role_names
          /\ EnabledRoleNames(enabled_role_definitions)
                 \subseteq KnownRoleNames(SubSeq(all_role_definitions, 1, def_index))
          /\ \A i \in 1..Len(role_specific_stack) :
                 role_specific_stack[i] \in known_role_names
    /\ [][ (/\ pc = "scan"
            /\ line_number < Len(lines)
            /\ IsMarker(CurrentLine)
            /\ MarkerName(CurrentLine) \in enabled_role_names
            /\ line_number' = line_number + 1) =>
             raised'.kind \notin { "unknown_start", "unknown_end" }
         ]_vars

\* C19: A is defined twice, the second time in use by the variable db_host,
\* and the scan is inside block A
C19_Witness ==
    /\ pc = "scan"
    /\ all_role_definitions =
           << Dict([name |-> RoleA]),
              Dict([name |-> RoleA, activation_prefix |-> DbPrefix]) >>
    /\ DbHost \in used_variable_names
    /\ enabled_role_names = { RoleA }
    /\ known_role_names = { RoleA }
    /\ role_specific_stack = << RoleA >>
    /\ line_number = 2


-----------------------------------------------------------------------------
RECURSIVE EmittedFrom(_, _, _, _, _, _)
\* the numbers of the lines of ls, from at_line on, that the loop of line 125
\* appends to the output when it goes on from the locals s
EmittedFrom(s, ls, at_line, in_file, enabled, known) ==
    IF at_line > Len(ls) \/ s.raised.kind # "none" THEN {}
    ELSE LET after == LoopBody(s, ls[at_line], at_line, in_file, enabled, known)
         IN  (IF Len(after.out_lines) > Len(s.out_lines) THEN { at_line } ELSE {})
                 \cup EmittedFrom(after, ls, at_line + 1, in_file, enabled, known)

\* the numbers of the lines of the current file emitted under an enabled set
Emitted(enabled) ==
    EmittedFrom(InitialScan, lines, 1, file_name, enabled, known_role_names)

RECURSIVE LinesAt(_, _, _)
\* the lines of ls, among the first n, whose numbers are in positions
LinesAt(ls, n, positions) ==
    IF n = 0 THEN << >>
    ELSE LinesAt(ls, n - 1, positions)
             \o (IF n \in positions THEN << ls[n] >> ELSE << >>)

\* C20: retention is monotone in the enabled set for the lines that are not
\* blank.  When the scan of a text succeeds with the enabled set E2, it
\* succeeds with every E1 within E2, and every non-blank line, by its number,
\* that is emitted with E1 is emitted with E2.  (Blank lines are left out of
\* the statement: a block that E2 enables can bring blank lines that put a
\* later blank line over the limit of 2.)
C20_RetentionMonotoneForNonBlankLines ==
    pc = "returned" =>
        LET E2 == enabled_role_names
        IN  /\ out_lines = LinesAt(lines, Len(lines), Emitted(E2))
            /\ \A E1 \in SUBSET E2 :
                   /\ process_file_contents(file_name, contents, E1,
                                            known_role_names).returned.has
                   /\ \A n \in Emitted(E1) :
                          lines[n] # BlankLine => n \in Emitted(E2)

\* C20: block A holds two blank lines; a blank line and x follow it.  With A
\* enabled x is emitted as without, but the blank line after the block, which
\* is emitted without A, is the third of its run and is not
C20_Witness ==
    /\ pc = "returned"
    /\ lines = << StartA, BlankLine, BlankLine, EndA, BlankLine, TextLine >>
    /\ enabled_role_names = { RoleA }
    /\ Emitted({}) = { 5, 6 }
    /\ Emitted({ RoleA }) = { 2, 3, 6 }
    /\ out_lines = << BlankLine, BlankLine, TextLine >>


====
